---- MODULE Spec2Model ----
(***************************************************************************)
(* Connection lifecycle of the go2rtc panel (src/src/Go2RTCPanel.tsx):     *)
(* the WebRTC Setup effect with its asynchronous setupWebRTC, the          *)
(* reconnect timer of triggerReconnect, the peer connection callbacks and  *)
(* the settings / reconnect-button handlers.                               *)
(*                                                                         *)
(* One action is one task of the single-threaded event loop: an effect     *)
(* flush, a resumed await of setupWebRTC, a timer callback, a peer         *)
(* connection event, a user action.  Time is counted in seconds.           *)
(***************************************************************************)
EXTENDS Naturals, Integers, FiniteSets, Sequences, TLC

VARIABLES
    mounted,              \* the root is rendered (initGo2RTCPanel) and not yet unmounted
    config,               \* useState<Config>
    deps,                 \* dependency values seen by the last run of the WebRTC Setup effect
    reconnectCount,       \* useState(0), kept relative to the value in deps
    status,               \* useState<string>("Disconnected")
    error,                \* useState<string | null>(null)
    pcRef,                \* useRef<RTCPeerConnection | null>: 0 is null
    reconnectTimeoutRef,  \* useRef<NodeJS.Timeout | null>: 0 is null
    timers,               \* pending setTimeout callbacks: id -> seconds left, -1 not pending
    pcs,                  \* RTCPeerConnection objects and the setupWebRTC call that owns each
    srcObject,            \* videoRef.current.srcObject: 0 is null, else the pc whose stream it is
    firstFailAge,         \* history: seconds since the failure that armed the pending timer
    lastFailAge,          \* history: seconds since the latest failure reported to triggerReconnect
    lastRun,              \* history: what the last step did, if it ran the effect
    pristine,             \* history: default config, nothing changed, nothing failed so far
    video,                \* videoRef.current: paused, readyState, buffered, currentTime
    latency,              \* useState<number>(0)
    lastSample            \* history: what the last step did, if it was the interval callback

connectionVars == <<mounted, config, deps, reconnectCount, status, error, pcRef,
                    reconnectTimeoutRef, timers, pcs, srcObject, firstFailAge,
                    lastFailAge, lastRun, pristine>>

monitorVars == <<video, latency, lastSample>>

vars == <<connectionVars, monitorVars>>

(***************************************************************************)
(* Bounds of the model.                                                    *)
(***************************************************************************)
MaxPc == 2        \* peer connection objects alive or with a call still in flight
MaxTimers == 2    \* timer handles
MaxTime == 4      \* media positions, in quarters of a second
MaxRanges == 2    \* ranges of video.buffered
MaxPending == 1   \* reconnectCount increments not yet seen by the effect

(***************************************************************************)
(* Program constants.                                                      *)
(***************************************************************************)
DELAY == 2        \* setTimeout(..., 2000)

HAVE_FUTURE_DATA == 3   \* video.readyState < 3
THRESHOLD == 2          \* diff > 0.5, in quarters of a second

DEFAULT_CONFIG == [url |-> "http://localhost:1984", stream |-> "cam1"]

Urls == {"", "http://localhost:1984"}
Streams == {"", "cam1", "cam2"}
Configs == [url : Urls, stream : Streams]

NoDeps == [url |-> "-", stream |-> "-", reconnectCount |-> 0]

\* lastRun when the last step was not a run of the effect.  Otherwise: whether
\* setupWebRTC went past its configuration check, the stream of the dependency
\* values it replaced, the pc that pcRef held, and whether an expired reconnect
\* timer preceded it.
NoRun == [ran |-> FALSE, started |-> FALSE, prevStream |-> "-", prevPc |-> 0, retry |-> FALSE]

HttpErrorMessage == "Failed to connect to go2rtc: Internal Server Error"
ExceptionMessage == "NetworkError"
NoError == "null"

IceStates == {"new", "connected", "failed"}
ConnStates == {"new", "connected", "failed"}

PcIds == 1..MaxPc
TimerIds == 1..MaxTimers

FreePc == [state |-> "free", closes |-> 0, step |-> "none", ice |-> "closed",
           conn |-> "closed", gotTrack |-> FALSE, fetches |-> 0]

\* `ICE: ${iceState} / CONN: ${connState}`
RawLabel(iceState, connState) == "ICE: " \o iceState \o " / CONN: " \o connState

(***************************************************************************)
(* The mutable cells the handlers read and write, as one record, so that a *)
(* handler is a function from the state before it to the state after it.   *)
(***************************************************************************)
Cur == [mounted |-> mounted, status |-> status, error |-> error, pcRef |-> pcRef,
        reconnectTimeoutRef |-> reconnectTimeoutRef, timers |-> timers,
        pcs |-> pcs, srcObject |-> srcObject, reconnectCount |-> reconnectCount,
        firstFailAge |-> firstFailAge, lastFailAge |-> lastFailAge]

Commit(s) ==
    /\ status' = s.status
    /\ error' = s.error
    /\ pcRef' = s.pcRef
    /\ reconnectTimeoutRef' = s.reconnectTimeoutRef
    /\ timers' = s.timers
    /\ pcs' = s.pcs
    /\ srcObject' = s.srcObject
    /\ reconnectCount' = s.reconnectCount
    /\ firstFailAge' = s.firstFailAge
    /\ lastFailAge' = s.lastFailAge

\* A state setter of an unmounted component does nothing.
setStatus(s, v) == IF s.mounted THEN [s EXCEPT !.status = v] ELSE s
setError(s, v) == IF s.mounted THEN [s EXCEPT !.error = v] ELSE s
setReconnectCount(s) == IF s.mounted THEN [s EXCEPT !.reconnectCount = @ + 1] ELSE s

\* setTimeout returns a handle no pending timer has.
NewTimer(tm) ==
    IF \E i \in TimerIds : tm[i] = -1
    THEN CHOOSE i \in TimerIds : tm[i] = -1 /\ \A j \in TimerIds : tm[j] = -1 => i <= j
    ELSE MaxTimers

armTimer(s, delay) ==
    LET id == NewTimer(s.timers) IN
    [setStatus(s, "Retrying in 2s...") EXCEPT
        !.timers[id] = delay,
        !.reconnectTimeoutRef = id,
        !.firstFailAge = 0,
        !.lastFailAge = 0]

triggerReconnectNoGuard(s) == armTimer(s, DELAY)

triggerReconnectShortDelay(s) ==
    IF s.reconnectTimeoutRef # 0 THEN [s EXCEPT !.lastFailAge = 0]
    ELSE armTimer(s, DELAY - 1)

\* triggerReconnect: no-op while a timer is armed, else arm the 2 s timer.
triggerReconnect(s) ==
    IF s.reconnectTimeoutRef # 0 THEN [s EXCEPT !.lastFailAge = 0]
    ELSE armTimer(s, DELAY)

\* pc.close(): the connection and both state attributes become "closed"; a call
\* of setupWebRTC awaiting a method of this pc is never resumed.
closePc(ps, p) ==
    [ps EXCEPT ![p] = [@ EXCEPT
        !.state = "closed",
        !.closes = IF @ < 2 THEN @ + 1 ELSE @,
        !.ice = "closed",
        !.conn = "closed",
        !.step = IF @ \in {"offer", "local", "remote"} THEN "dead" ELSE @]]

closeCurrentKeepRef(s) ==
    IF s.pcRef # 0 THEN [s EXCEPT !.pcs = closePc(s.pcs, s.pcRef)] ELSE s

closeCurrentForget(s) ==
    IF s.pcRef # 0 THEN [s EXCEPT !.pcRef = 0] ELSE s

\* if (pcRef.current) { pcRef.current.close(); pcRef.current = null; }
closeCurrent(s) ==
    IF s.pcRef # 0
    THEN [s EXCEPT !.pcs = closePc(s.pcs, s.pcRef), !.pcRef = 0]
    ELSE s

clearReconnectTimeoutKeepRef(s) ==
    LET s1 == [s EXCEPT !.firstFailAge = -1, !.lastFailAge = -1] IN
    IF s.reconnectTimeoutRef # 0
    THEN [s1 EXCEPT !.timers[s.reconnectTimeoutRef] = -1]
    ELSE s1

\* if (reconnectTimeoutRef.current) { clearTimeout(...); reconnectTimeoutRef.current = null; }
clearReconnectTimeout(s) ==
    LET s1 == [s EXCEPT !.firstFailAge = -1, !.lastFailAge = -1] IN
    IF s.reconnectTimeoutRef # 0
    THEN [s1 EXCEPT !.timers[s.reconnectTimeoutRef] = -1,
                    !.reconnectTimeoutRef = 0]
    ELSE s1

cleanupKeepTimer(s) == closeCurrent(s)

cleanupKeepPc(s) == clearReconnectTimeout(s)

\* The cleanup returned by the WebRTC Setup effect.
cleanup(s) == closeCurrent(clearReconnectTimeout(s))

catchErrorNoRetry(s, p, msg) ==
    LET s1 == IF p = 0 THEN s ELSE [s EXCEPT !.pcs[p].step = "failed"] IN
    setStatus(setError(s1, msg), "Error")

\* catch (err) { setError(message); setStatus("Error"); triggerReconnect(); }
catchError(s, p, msg) ==
    LET s1 == IF p = 0 THEN s ELSE [s EXCEPT !.pcs[p].step = "failed"] IN
    triggerReconnect(setStatus(setError(s1, msg), "Error"))

\* The model keeps MaxPc connection objects.  new RTCPeerConnection takes an
\* unused one, or one that is closed and on which no call of setupWebRTC can
\* resume.  If the video element still holds the stream of the object taken,
\* srcObject becomes StaleStream: the stream of a connection closed earlier.
StaleStream == MaxPc + 1

Reusable(s, p) ==
    \/ s.pcs[p].state = "free"
    \/ /\ s.pcs[p].state = "closed"
       /\ s.pcs[p].step \notin {"fetch", "text"}

CanCreatePc(s) == \E p \in PcIds : Reusable(s, p)

NewPc(s) == CHOOSE p \in PcIds : Reusable(s, p) /\ \A q \in PcIds : Reusable(s, q) => p <= q

setupWebRTCNoStatus(s, cfg, ctorOk, p) ==
    IF cfg.url = "" \/ cfg.stream = ""
    THEN setStatus(s, "Waiting for config")
    ELSE
        LET s1 == closeCurrent(setError(s, NoError))
        IN  IF ctorOk
            THEN [s1 EXCEPT
                    !.pcs[p] = [state |-> "open", closes |-> 0, step |-> "offer",
                                ice |-> "new", conn |-> "new", gotTrack |-> FALSE,
                                fetches |-> 0],
                    !.pcRef = p,
                    !.srcObject = IF @ = p THEN StaleStream ELSE @]
            ELSE catchError(s1, 0, ExceptionMessage)

\* setupWebRTC up to its first await; ctorOk is whether new RTCPeerConnection
\* returns (TRUE) or throws (FALSE), p the object it returns.
setupWebRTC(s, cfg, ctorOk, p) ==
    IF cfg.url = "" \/ cfg.stream = ""
    THEN setStatus(s, "Waiting for config")
    ELSE
        LET s1 == closeCurrent(setError(setStatus(s, "Connecting..."), NoError))
        IN  IF ctorOk
            THEN [s1 EXCEPT
                    !.pcs[p] = [state |-> "open", closes |-> 0, step |-> "offer",
                                ice |-> "new", conn |-> "new", gotTrack |-> FALSE,
                                fetches |-> 0],
                    !.pcRef = p,
                    !.srcObject = IF @ = p THEN StaleStream ELSE @]
            ELSE catchError(s1, 0, ExceptionMessage)

CurDeps == [url |-> config.url, stream |-> config.stream, reconnectCount |-> reconnectCount]

Init ==
    /\ mounted = TRUE
    /\ config \in Configs
    /\ deps = NoDeps
    /\ reconnectCount = 0
    /\ status = "Disconnected"
    /\ error = NoError
    /\ pcRef = 0
    /\ reconnectTimeoutRef = 0
    /\ timers = [i \in TimerIds |-> -1]
    /\ pcs = [p \in PcIds |-> FreePc]
    /\ srcObject = 0
    /\ firstFailAge = -1
    /\ lastFailAge = -1
    /\ lastRun = NoRun
    /\ pristine = (config = DEFAULT_CONFIG)
    /\ video = [paused |-> TRUE, readyState |-> 0, buffered |-> <<>>, currentTime |-> 0]
    /\ latency = 0
    /\ lastSample = "none"

EffectPending == mounted /\ (deps = NoDeps \/ deps # CurDeps)

\* The WebRTC Setup effect: the previous run's cleanup, then setupWebRTC().
RunEffect ==
    /\ EffectPending
    /\ \E ctorOk \in BOOLEAN :
        LET s0 == IF deps = NoDeps THEN Cur ELSE cleanup(Cur) IN
        /\ (config.url # "" /\ config.stream # "") => CanCreatePc(Cur)
        /\ Commit([setupWebRTC(s0, config, ctorOk, NewPc(Cur)) EXCEPT !.reconnectCount = 0])
        /\ deps' = [url |-> config.url, stream |-> config.stream, reconnectCount |-> 0]
        /\ pristine' = (pristine /\ ctorOk)
    /\ lastRun' = [ran |-> TRUE,
                   started |-> config.url # "" /\ config.stream # "",
                   prevStream |-> deps.stream,
                   prevPc |-> pcRef,
                   retry |-> reconnectTimeoutRef = 0 /\ firstFailAge >= 0]
    /\ UNCHANGED video /\ latency' = latency /\ lastSample' = "none"
    /\ UNCHANGED <<mounted, config>>

\* settingsActionHandler, action "update": path is payload.path[1] under "general".
settingsActionHandler(cfg, path, value) ==
    IF path = "url" THEN [cfg EXCEPT !.url = value]
    ELSE IF path = "stream" THEN [cfg EXCEPT !.stream = value]
    ELSE cfg

SettingsUpdate ==
    /\ mounted
    /\ \E path \in {"url", "stream", "other"}, value \in Urls \cup Streams :
        /\ path = "url" => value \in Urls
        /\ path = "stream" => value \in Streams
        /\ config' = settingsActionHandler(config, path, value)
    /\ pristine' = (pristine /\ config' = config)
    /\ UNCHANGED <<mounted, deps, reconnectCount, status, error, pcRef,
                   reconnectTimeoutRef, timers, pcs, srcObject, firstFailAge,
                   lastFailAge>>
    /\ lastRun' = NoRun
    /\ UNCHANGED video /\ latency' = latency /\ lastSample' = "none"

\* The Reconnect button: onClick={() => setReconnectCount((c) => c + 1)}
ClickReconnect ==
    /\ mounted
    /\ reconnectCount < MaxPending
    /\ Commit(setReconnectCount(Cur))
    /\ pristine' = FALSE
    /\ lastRun' = NoRun
    /\ UNCHANGED video /\ latency' = latency /\ lastSample' = "none"
    /\ UNCHANGED <<mounted, config, deps>>

\* root.unmount(): the effect's cleanup runs and the component is gone.
Unmount ==
    /\ mounted
    /\ mounted' = FALSE
    /\ Commit(cleanup(Cur))
    /\ pristine' = FALSE
    /\ lastRun' = NoRun
    /\ UNCHANGED video /\ latency' = latency /\ lastSample' = "none"
    /\ UNCHANGED <<config, deps>>

timerCallbackNoCount(s, id) ==
    [s EXCEPT !.reconnectTimeoutRef = 0, !.timers[id] = -1]

\* The callback given to setTimeout in triggerReconnect.
timerCallback(s, id) ==
    [setReconnectCount(s) EXCEPT
        !.reconnectTimeoutRef = 0,
        !.timers[id] = -1]

TimerFire ==
    /\ \E id \in TimerIds :
        /\ timers[id] = 0
        /\ mounted => reconnectCount < MaxPending
        /\ Commit(timerCallback(Cur, id))
    /\ pristine' = FALSE
    /\ lastRun' = NoRun
    /\ UNCHANGED video /\ latency' = latency /\ lastSample' = "none"
    /\ UNCHANGED <<mounted, config, deps>>

Older(age) == IF age >= 0 /\ age <= DELAY THEN age + 1 ELSE age

\* One second passes.  A due timer callback and a pending effect run first.
Tick ==
    /\ ~EffectPending
    /\ \A id \in TimerIds : timers[id] # 0
    /\ \E id \in TimerIds : timers[id] > 0
    /\ timers' = [id \in TimerIds |-> IF timers[id] > 0 THEN timers[id] - 1 ELSE timers[id]]
    /\ firstFailAge' = Older(firstFailAge)
    /\ lastFailAge' = Older(lastFailAge)
    /\ UNCHANGED <<mounted, config, deps, reconnectCount, status, error, pcRef,
                   reconnectTimeoutRef, pcs, srcObject, pristine>>
    /\ lastRun' = NoRun
    /\ UNCHANGED video /\ latency' = latency /\ lastSample' = "none"

resumeRetryFetch(s, p, outcome) ==
    LET step == s.pcs[p].step IN
    IF outcome = "throw" THEN catchError(s, p, ExceptionMessage)
    ELSE IF step = "offer" THEN [s EXCEPT !.pcs[p].step = "local"]
    ELSE IF step = "local" THEN
        [s EXCEPT !.pcs[p].step = "fetch",
                  !.pcs[p].fetches = IF @ < 2 THEN @ + 1 ELSE @]
    ELSE IF step = "fetch" THEN
        IF outcome = "notOk"
        THEN [s EXCEPT !.pcs[p].fetches = IF @ < 2 THEN @ + 1 ELSE @]
        ELSE [s EXCEPT !.pcs[p].step = "text"]
    ELSE IF step = "text" THEN
        IF s.pcs[p].state = "closed" THEN catchError(s, p, ExceptionMessage)
        ELSE [s EXCEPT !.pcs[p].step = "remote"]
    ELSE setStatus([s EXCEPT !.pcs[p].step = "done"], "Connected")

\* setupWebRTC resumed after the await it is suspended at (pcs[p].step), with
\* the awaited promise fulfilled ("ok"), rejected ("throw") or, for fetch,
\* fulfilled by a response whose ok is false ("notOk").
resume(s, p, outcome) ==
    LET step == s.pcs[p].step IN
    IF outcome = "throw" THEN catchError(s, p, ExceptionMessage)
    ELSE IF step = "offer" THEN [s EXCEPT !.pcs[p].step = "local"]
    ELSE IF step = "local" THEN
        \* fetch(`${endpoint}/api/webrtc?src=${config.stream}`, ...)
        [s EXCEPT !.pcs[p].step = "fetch",
                  !.pcs[p].fetches = IF @ < 2 THEN @ + 1 ELSE @]
    ELSE IF step = "fetch" THEN
        IF outcome = "notOk" THEN catchError(s, p, HttpErrorMessage)
        ELSE [s EXCEPT !.pcs[p].step = "text"]
    ELSE IF step = "text" THEN
        \* setRemoteDescription of a closed connection rejects at once
        IF s.pcs[p].state = "closed" THEN catchError(s, p, ExceptionMessage)
        ELSE [s EXCEPT !.pcs[p].step = "remote"]
    ELSE setStatus([s EXCEPT !.pcs[p].step = "done"], "Connected")

Suspended(p) == pcs[p].step \in {"offer", "local", "fetch", "text", "remote"}

AwaitSettles ==
    /\ \E p \in PcIds, outcome \in {"ok", "throw", "notOk"} :
        /\ Suspended(p)
        /\ outcome = "notOk" => pcs[p].step = "fetch"
        /\ Commit(resume(Cur, p, outcome))
        /\ pristine' = (pristine /\ outcome = "ok")
    /\ lastRun' = NoRun
    /\ UNCHANGED video /\ latency' = latency /\ lastSample' = "none"
    /\ UNCHANGED <<mounted, config, deps>>

updateConnectionStatusNoRetry(s, p) ==
    setStatus(s, RawLabel(s.pcs[p].ice, s.pcs[p].conn))

\* updateConnectionStatus, installed as oniceconnectionstatechange and
\* onconnectionstatechange of pc p.
updateConnectionStatus(s, p) ==
    LET iceState == s.pcs[p].ice
        connState == s.pcs[p].conn
        s1 == setStatus(s, RawLabel(iceState, connState))
    IN  IF iceState = "failed" \/ connState = "failed" THEN triggerReconnect(s1) ELSE s1

\* The transports of a connection start once its remote description is set:
\* state changes are reported after setRemoteDescription has resolved.
Live(p) == pcs[p].state = "open" /\ pcs[p].step = "done"

\* The states the ICE agent can report next; "failed" is final.
NextIceStates(pc) ==
    IF pc.ice = "new" THEN {"connected", "failed"}
    ELSE IF pc.ice = "connected" THEN {"failed"} ELSE {}

\* The aggregate connection state: "connected" needs ICE connected; "failed"
\* follows an ICE or a DTLS failure and is final.
NextConnStates(pc) ==
    (IF pc.conn = "new" /\ pc.ice = "connected" THEN {"connected"} ELSE {})
    \cup (IF pc.conn # "failed" THEN {"failed"} ELSE {})

IceConnectionStateChange ==
    /\ \E p \in PcIds : \E v \in NextIceStates(pcs[p]) :
        /\ Live(p)
        /\ Commit(updateConnectionStatus([Cur EXCEPT !.pcs[p].ice = v], p))
        /\ pristine' = (pristine /\ v # "failed")
    /\ lastRun' = NoRun
    /\ UNCHANGED video /\ latency' = latency /\ lastSample' = "none"
    /\ UNCHANGED <<mounted, config, deps>>

ConnectionStateChange ==
    /\ \E p \in PcIds : \E v \in NextConnStates(pcs[p]) :
        /\ Live(p)
        /\ Commit(updateConnectionStatus([Cur EXCEPT !.pcs[p].conn = v], p))
        /\ pristine' = (pristine /\ v # "failed")
    /\ lastRun' = NoRun
    /\ UNCHANGED video /\ latency' = latency /\ lastSample' = "none"
    /\ UNCHANGED <<mounted, config, deps>>

ontrackFirstOnly(s, p) ==
    [s EXCEPT !.srcObject = IF @ = 0 THEN p ELSE @, !.pcs[p].gotTrack = TRUE]

\* pc.ontrack: videoRef.current.srcObject = event.streams[0]
ontrack(s, p) == [s EXCEPT !.srcObject = p, !.pcs[p].gotTrack = TRUE]

\* Track events are fired while the answer is being applied.
Track ==
    /\ \E p \in PcIds :
        /\ pcs[p].state = "open"
        /\ pcs[p].step = "remote"
        /\ mounted
        /\ Commit(ontrack(Cur, p))
    /\ lastRun' = NoRun
    /\ UNCHANGED video /\ latency' = latency /\ lastSample' = "none"
    /\ UNCHANGED <<mounted, config, deps, pristine>>

(***************************************************************************)
(* Latency Killer & Monitor.  The video element is a record of the         *)
(* attributes the interval callback reads and writes; buffered is the      *)
(* sequence of the end positions of its ranges.  The monitor and the       *)
(* connection lifecycle share no state: the monitor reads only these       *)
(* attributes, the lifecycle writes only srcObject.                        *)
(***************************************************************************)
Times == 0..MaxTime
ReadyStates == 0..4

RECURSIVE Increasing(_)
Increasing(q) ==
    IF Len(q) <= 1 THEN TRUE
    ELSE q[1] < q[2] /\ Increasing(Tail(q))

Buffereds ==
    {q \in UNION {[1..n -> Times] : n \in 0..MaxRanges} : Increasing(q)}

intervalCallbackNoSkip(v, lat) ==
    IF Len(v.buffered) > 0
    THEN LET end == v.buffered[Len(v.buffered)]
             diff == end - v.currentTime
         IN  IF diff > THRESHOLD
             THEN [video |-> [v EXCEPT !.currentTime = end], latency |-> diff,
                   did |-> "corrected"]
             ELSE [video |-> v, latency |-> diff, did |-> "sampled"]
    ELSE [video |-> v, latency |-> lat, did |-> "empty"]

intervalCallbackAtThreshold(v, lat) ==
    IF v.paused \/ v.readyState < HAVE_FUTURE_DATA
    THEN [video |-> v, latency |-> lat, did |-> "skipped"]
    ELSE IF Len(v.buffered) > 0
    THEN LET end == v.buffered[Len(v.buffered)]
             diff == end - v.currentTime
         IN  IF diff >= THRESHOLD
             THEN [video |-> [v EXCEPT !.currentTime = end], latency |-> diff,
                   did |-> "corrected"]
             ELSE [video |-> v, latency |-> diff, did |-> "sampled"]
    ELSE [video |-> v, latency |-> lat, did |-> "empty"]

\* The callback given to setInterval(..., 500): the video element and the
\* latency state after it, and what it did.
intervalCallback(v, lat) ==
    IF v.paused \/ v.readyState < HAVE_FUTURE_DATA
    THEN [video |-> v, latency |-> lat, did |-> "skipped"]
    ELSE IF Len(v.buffered) > 0
    THEN LET end == v.buffered[Len(v.buffered)]
             diff == end - v.currentTime
         IN  IF diff > THRESHOLD
             THEN [video |-> [v EXCEPT !.currentTime = end], latency |-> diff,
                   did |-> "corrected"]
             ELSE [video |-> v, latency |-> diff, did |-> "sampled"]
    ELSE [video |-> v, latency |-> lat, did |-> "empty"]

Sample ==
    /\ mounted
    /\ LET r == intervalCallback(video, latency) IN
        /\ video' = r.video
        /\ latency' = r.latency
        /\ lastSample' = r.did
    /\ lastRun' = NoRun
    /\ UNCHANGED <<mounted, config, deps, reconnectCount, status, error, pcRef,
                   reconnectTimeoutRef, timers, pcs, srcObject, firstFailAge,
                   lastFailAge, pristine>>

\* The media element plays, pauses, buffers, seeks and changes readiness.
VideoChange ==
    /\ mounted
    /\ \/ video' = [video EXCEPT !.paused = ~@]
       \/ \E r \in ReadyStates : video' = [video EXCEPT !.readyState = r]
       \/ \E b \in Buffereds : video' = [video EXCEPT !.buffered = b]
       \/ \E c \in Times : video' = [video EXCEPT !.currentTime = c]
    /\ lastSample' = "none"
    /\ lastRun' = NoRun
    /\ UNCHANGED <<mounted, config, deps, reconnectCount, status, error, pcRef,
                   reconnectTimeoutRef, timers, pcs, srcObject, firstFailAge,
                   lastFailAge, pristine, latency>>

Next ==
    \/ RunEffect
    \/ SettingsUpdate
    \/ ClickReconnect
    \/ Unmount
    \/ TimerFire
    \/ Tick
    \/ AwaitSettles
    \/ IceConnectionStateChange
    \/ ConnectionStateChange
    \/ Track

Spec == Init /\ [][Next]_vars

(***************************************************************************)
(* Scheduling: a pending effect is flushed, a due timer callback runs,     *)
(* time passes, and a request whose attempt was torn down completes.       *)
(* CanRunEffect, CanTimerFire and CanStaleSettle are ENABLED of the        *)
(* corresponding actions written out: the second conjunct of Fairness is   *)
(* strong fairness of RunEffect (React flushes a pending effect before it  *)
(* handles the next update, so a configuration edited back and forth       *)
(* cannot starve it), the third and fourth are weak fairness of TimerFire  *)
(* and StaleSettles.                                                       *)
(***************************************************************************)
StaleSettles ==
    /\ \E p \in PcIds, outcome \in {"ok", "throw", "notOk"} :
        /\ Suspended(p)
        /\ pcs[p].state = "closed"
        /\ outcome = "notOk" => pcs[p].step = "fetch"
        /\ Commit(resume(Cur, p, outcome))
        /\ pristine' = (pristine /\ outcome = "ok")
    /\ lastRun' = NoRun
    /\ UNCHANGED video /\ latency' = latency /\ lastSample' = "none"
    /\ UNCHANGED <<mounted, config, deps>>

CanRunEffect == EffectPending /\ ((config.url # "" /\ config.stream # "") => CanCreatePc(Cur))
CanTimerFire == \E id \in TimerIds : timers[id] = 0 /\ (mounted => reconnectCount < MaxPending)
CanStaleSettle == \E p \in PcIds : Suspended(p) /\ pcs[p].state = "closed"

Fairness ==
    /\ WF_vars(Tick)
    /\ (<>[](~CanRunEffect) \/ []<><<RunEffect>>_vars)
    /\ ([]<>(~CanTimerFire) \/ []<><<TimerFire>>_vars)
    /\ ([]<>(~CanStaleSettle) \/ []<><<StaleSettles>>_vars)

LiveSpec == Init /\ [][Next]_vars /\ Fairness

\* The monitor on its own: the interval callback, the media element and the
\* unmount that clears the interval.
NextMonitor ==
    \/ Sample
    \/ VideoChange
    \/ Unmount

InitMonitor == Init /\ config = DEFAULT_CONFIG

MonitorSpec == InitMonitor /\ [][NextMonitor]_vars


(***************************************************************************)
(* Vocabulary of the properties.                                           *)
(***************************************************************************)
ConfigComplete == config.url # "" /\ config.stream # ""
Armed == reconnectTimeoutRef # 0
PendingTimers == {id \in TimerIds : timers[id] >= 0}
RawLabels == {RawLabel(i, c) : i \in IceStates, c \in ConnStates}

\* This step is the callback of a reconnect timer (and not a clearTimeout).
TimerExpiry ==
    /\ \E id \in TimerIds : timers[id] = 0 /\ timers'[id] = -1
    /\ ~lastRun'.ran
    /\ mounted' = mounted

\* This step resumes a call of setupWebRTC whose pc was closed by a teardown.
StaleCompletion ==
    \E p \in PcIds : pcs[p].state = "closed" /\ Suspended(p) /\ pcs'[p].step # pcs[p].step

\* This step ends a connection attempt in the catch block of setupWebRTC.
NegotiationFailure ==
    \/ \E p \in PcIds : pcs[p].step # "failed" /\ pcs'[p].step = "failed"
    \/ lastRun'.started /\ pcRef' = 0

\* This step is a state-change callback that finds the ICE state or the
\* connection state "failed".
FailureCallback ==
    \E p \in PcIds :
        /\ pcs[p].state = "open" /\ pcs'[p].state = "open"
        /\ pcs'[p].ice # pcs[p].ice \/ pcs'[p].conn # pcs[p].conn
        /\ pcs'[p].ice = "failed" \/ pcs'[p].conn = "failed"

\* This step calls triggerReconnect.
FailureReported == NegotiationFailure \/ FailureCallback

\* C1: while the configuration is incomplete (and the effect has seen it), no
\* session handle exists and the displayed status is "Waiting for config".
C1_WaitingWhileIncomplete ==
    (mounted /\ ~EffectPending /\ ~ConfigComplete) =>
        (status = "Waiting for config" /\ pcRef = 0)

\* C2: a call of setupWebRTC that resumes after its attempt was torn down
\* changes neither the status nor the error message and arms no timer.
C2_StaleResultDiscarded ==
    [][StaleCompletion =>
        /\ status' = status
        /\ error' = error
        /\ timers' = timers
        /\ reconnectTimeoutRef' = reconnectTimeoutRef]_vars

\* C3: at most one reconnect timer is pending and reconnectTimeoutRef holds
\* it; a step that reports a failure leaves exactly one timer pending, and if
\* one was already armed the step changes neither the timer nor its expiry.
C3_AtMostOneTimer ==
    /\ [](/\ Cardinality(PendingTimers) <= 1
          /\ Armed => PendingTimers = {reconnectTimeoutRef}
          /\ ~Armed => PendingTimers = {})
    /\ [][(FailureReported /\ ~lastRun'.ran) =>
            /\ Cardinality(PendingTimers') = 1
            /\ Armed => (timers' = timers /\ reconnectTimeoutRef' = reconnectTimeoutRef)]_vars

\* A second failure was reported one second after the failure that armed the
\* timer, and one timer is pending.
C3_Witness ==
    /\ Armed
    /\ firstFailAge = 1
    /\ lastFailAge = 0
    /\ timers[reconnectTimeoutRef] = DELAY - 1
    /\ Cardinality(PendingTimers) = 1

\* C4: after the component is unmounted no reconnect timer is armed.
C4_NoTimerAfterUnmount ==
    ~mounted => (reconnectTimeoutRef = 0 /\ PendingTimers = {})

\* An expired reconnect timer that the effect has not answered yet.
Expired == reconnectTimeoutRef = 0 /\ firstFailAge >= 0

\* No call of setupWebRTC has failed after its pc was closed.
NoStaleFailure == \A p \in PcIds : pcs[p].state = "closed" => pcs[p].step # "failed"

\* C5 as stated: when the reconnect timer expires, at least 2 s have passed
\* since every failure reported to triggerReconnect, the latest included
\* (here for the runs in which every failure is one of the current attempt).
C5_TwoSecondsAfterEveryFailure ==
    (Expired /\ NoStaleFailure) => lastFailAge >= DELAY

\* C5 amended: the reconnect timer expires exactly 2 s after the failure that
\* armed it, whatever failures were reported while it was pending.
C5_TwoSecondsAfterArmingFailure ==
    /\ Expired => firstFailAge = DELAY
    /\ Armed => (firstFailAge >= 0 /\ firstFailAge + timers[reconnectTimeoutRef] = DELAY)

\* The timer has expired 2 s after the failure that armed it and 1 s after a
\* later failure.
C5_Witness ==
    /\ Expired
    /\ mounted
    /\ EffectPending
    /\ firstFailAge = DELAY
    /\ lastFailAge = 1

TypeOK ==
    /\ mounted \in BOOLEAN
    /\ config \in Configs
    /\ pcRef \in 0..MaxPc
    /\ reconnectTimeoutRef \in 0..MaxTimers
    /\ srcObject \in 0..StaleStream
    /\ reconnectCount \in 0..MaxPending

\* The pc the last run of the effect took from pcRef.
Prior == lastRun.prevPc

\* C6: no pc is closed twice, and the pc that pcRef held when the effect ran
\* again (here: on a change from cam1 to cam2 while connected) is closed
\* exactly once in that run, before the run puts a new, open pc in pcRef.
C6_PriorHandleClosedOnce ==
    /\ \A p \in PcIds : pcs[p].closes <= 1
    /\ (lastRun.ran /\ Prior # 0) =>
        /\ pcs[Prior].state = "closed"
        /\ pcs[Prior].closes = 1
        /\ pcRef # Prior
    /\ (lastRun.started /\ pcRef # 0) =>
        /\ pcs[pcRef].state = "open"
        /\ pcs[pcRef].closes = 0
        /\ pcs[pcRef].step = "offer"

\* The effect has just run for a change from cam1 to cam2 made while
\* connected: the prior pc is closed once and a new pc is open.
C6_Witness ==
    /\ lastRun.started
    /\ lastRun.prevStream = "cam1"
    /\ deps.stream = "cam2"
    /\ Prior # 0
    /\ pcs[Prior].step = "done"
    /\ pcs[Prior].state = "closed"
    /\ pcs[Prior].closes = 1
    /\ pcRef # 0
    /\ pcs[pcRef].state = "open"
    /\ status = "Connecting..."

\* This step resumes setupWebRTC of pc p after setRemoteDescription resolved.
Success(p) == pcs[p].step = "remote" /\ pcs'[p].step = "done"

\* C7 as stated: when a negotiation succeeds the status is "Connected" and
\* the stream of the session is attached to the video element.
C7_ConnectedWithStream ==
    [][\A p \in PcIds : Success(p) => (status' = "Connected" /\ srcObject' = p)]_vars

\* C7 amended: when a negotiation succeeds the status is set to "Connected",
\* the pc is the one in pcRef, and the video element holds the stream of the
\* session if a track event arrived, else what it held before.
C7_ConnectedAndStreamIfTrack ==
    [][\A p \in PcIds : Success(p) =>
        /\ status' = "Connected"
        /\ pcRef' = p
        /\ pcs[p].gotTrack => srcObject' = p
        /\ ~pcs[p].gotTrack => (srcObject' = srcObject /\ srcObject' # p)]_vars

\* A session is connected with its stream attached, after an earlier session
\* had its stream attached.
C7_Witness ==
    /\ status = "Connected"
    /\ pcRef # 0
    /\ pcs[pcRef].step = "done"
    /\ srcObject = pcRef
    /\ \E p \in PcIds : p # pcRef /\ pcs[p].state = "closed" /\ pcs[p].step = "done"

\* C8 as stated: a failed attempt leaves the status "Error", the message
\* captured and the timer armed.
C8_EndsInError ==
    [][(NegotiationFailure /\ mounted') =>
        /\ status' = "Error"
        /\ error' \in {HttpErrorMessage, ExceptionMessage}
        /\ Armed']_vars

\* C8 amended: a failed attempt leaves exactly one timer armed; while mounted
\* the message is captured and the status is "Retrying in 2s..." with a timer
\* of 2 s armed by this failure, or "Error" if a timer was already armed; and
\* the expiry of the timer makes the effect run again.
C8_EndsInRetrying ==
    /\ [][NegotiationFailure =>
            /\ Armed'
            /\ PendingTimers' = {reconnectTimeoutRef'}
            /\ mounted' =>
                /\ error' \in {HttpErrorMessage, ExceptionMessage}
                /\ IF Armed /\ ~lastRun'.ran
                   THEN status' = "Error" /\ timers' = timers
                   ELSE status' = "Retrying in 2s..." /\ timers'[reconnectTimeoutRef'] = DELAY]_vars
    /\ [][(TimerExpiry /\ mounted) => EffectPending']_vars

\* The signaling request of the current attempt was answered with a status
\* that is not ok: message captured, retry in 2 s announced, timer armed.
C8_Witness ==
    /\ mounted
    /\ pcRef # 0
    /\ pcs[pcRef].step = "failed"
    /\ error = HttpErrorMessage
    /\ status = "Retrying in 2s..."
    /\ Armed
    /\ timers[reconnectTimeoutRef] = DELAY

\* C9 as stated: from activation with the default configuration and no
\* failure, the status is WaitingForConfig, Connecting or Connected and no
\* reconnect is scheduled.
C9_WaitingConnectingConnected ==
    pristine =>
        /\ status \in {"Waiting for config", "Connecting...", "Connected"}
        /\ ~Armed

\* C9 amended: from activation with the default configuration and no
\* failure, the status is "Disconnected" until the effect runs, then
\* "Connecting..." until the answer is committed, then "Connected" or the raw
\* labels of a state change; "Waiting for config" is never shown, no error is
\* shown and no reconnect is scheduled.
C9_DisconnectedConnectingConnected ==
    pristine =>
        /\ ~Armed
        /\ PendingTimers = {}
        /\ error = NoError
        /\ IF deps = NoDeps THEN status = "Disconnected" /\ pcRef = 0
           ELSE /\ pcRef # 0
                /\ pcs[pcRef].step \in {"offer", "local", "fetch", "text", "remote", "done"}
                /\ pcs[pcRef].step # "done" => status = "Connecting..."
                /\ pcs[pcRef].step = "done" =>
                      status \in {"Connected"} \cup
                          {RawLabel(i, c) : i \in IceStates \ {"failed"}, c \in ConnStates \ {"failed"}}

\* The default configuration has connected without any failure.
C9_Witness ==
    /\ pristine
    /\ status = "Connected"
    /\ config = DEFAULT_CONFIG

\* C10: every reported failure leaves a reconnect timer armed; while the
\* component is mounted with a complete configuration an armed timer is
\* followed by a new connection attempt, however many failures came before;
\* and no timer ever runs for more than 2 s.
C10_RetryForever ==
    /\ [][FailureReported => Armed']_vars
    /\ (mounted /\ ConfigComplete /\ Armed) ~> (lastRun.started \/ ~mounted \/ ~ConfigComplete)
    /\ [](\A id \in TimerIds : timers[id] <= DELAY)

\* An attempt failed, its timer expired, and the effect started a new attempt.
C10_Witness ==
    /\ lastRun.started
    /\ lastRun.retry
    /\ Prior # 0
    /\ pcs[Prior].step = "failed"
    /\ status = "Connecting..."

\* C11: the cleanup of the effect, applied to any reachable state, leaves no
\* pc reference and no timer, closes no pc a second time, changes neither
\* status nor error, and applied again changes nothing more; where there is
\* no pc and no timer it changes nothing at all; and a run of the effect that
\* only tears down leaves no pc reference and no timer.
C11_TeardownIdempotent ==
    LET once == cleanup(Cur)
        twice == cleanup(once)
    IN  /\ twice = once
        /\ once.pcRef = 0
        /\ once.reconnectTimeoutRef = 0
        /\ \A id \in TimerIds : once.timers[id] = -1
        /\ \A p \in PcIds : once.pcs[p].closes <= 1
        /\ once.status = status /\ once.error = error
        /\ (pcRef = 0 /\ ~Armed) => (once.pcs = pcs /\ once.timers = timers)
        /\ (lastRun.ran /\ ~lastRun.started) =>
               (pcRef = 0 /\ ~Armed /\ PendingTimers = {})

\* The cleanup has run twice in a row: the last two runs of the effect found
\* an incomplete configuration, the earlier one closed a pc, the later one
\* found no pc.
C11_Witness ==
    /\ mounted
    /\ lastRun.ran
    /\ ~lastRun.started
    /\ lastRun.prevStream = ""
    /\ Prior = 0
    /\ pcRef = 0
    /\ ~Armed
    /\ \E p \in PcIds : pcs[p].state = "closed" /\ pcs[p].closes = 1

\* This step is a click on the Reconnect button.
ManualReconnect ==
    /\ mounted
    /\ reconnectCount' = reconnectCount + 1
    /\ timers' = timers

\* This step runs the effect again for an unchanged, complete configuration,
\* and not in answer to an expired reconnect timer.
ReconnectRun ==
    /\ lastRun'.ran
    /\ ~lastRun'.retry
    /\ deps # NoDeps
    /\ deps.url = config.url /\ deps.stream = config.stream
    /\ ConfigComplete

OpenPcs == {p \in PcIds : pcs[p].state = "open"}

\* C12: a click on Reconnect, with the configuration unchanged, makes the
\* effect run again; that run closes the pc in pcRef, cancels the pending
\* timer and starts exactly one new attempt ("Connecting...", one open pc, no
\* timer), or, if the pc cannot be created, reports that one failure.
C12_ManualReconnectRestarts ==
    /\ [][ManualReconnect => (EffectPending' /\ config' = config)]_vars
    /\ [][ReconnectRun =>
            /\ pcRef # 0 =>
                (pcs'[pcRef].state = "closed" /\ pcs'[pcRef].closes = 1 /\ pcRef' # pcRef)
            /\ ~EffectPending'
            /\ IF pcRef' # 0
               THEN /\ OpenPcs' = {pcRef'}
                    /\ pcs'[pcRef'].step = "offer"
                    /\ status' = "Connecting..."
                    /\ error' = NoError
                    /\ ~Armed'
                    /\ PendingTimers' = {}
               ELSE /\ OpenPcs' = {}
                    /\ status' = "Retrying in 2s..."
                    /\ PendingTimers' = {reconnectTimeoutRef'}
                    /\ timers'[reconnectTimeoutRef'] = DELAY]_vars

\* The effect has just run again after a click, for the same stream, while
\* the prior attempt was connected with no error shown: the prior pc is
\* closed and a new attempt is connecting.
C12_Witness ==
    /\ lastRun.started
    /\ ~lastRun.retry
    /\ lastRun.prevStream = deps.stream
    /\ Prior # 0
    /\ pcs[Prior].step = "done"
    /\ pcs[Prior].state = "closed"
    /\ pcRef # 0
    /\ pcs[pcRef].step = "offer"
    /\ status = "Connecting..."
    /\ ~Armed

\* The attempt the effect started last has failed: its pc could not be
\* created, its negotiation threw, or its transport reported "failed".
CurrentAttemptFailed ==
    IF pcRef = 0 THEN deps.url # "" /\ deps.stream # ""
    ELSE \/ pcs[pcRef].step = "failed"
         \/ pcs[pcRef].ice = "failed"
         \/ pcs[pcRef].conn = "failed"

\* C13: a reconnect timer that expires (while mounted) answers a failure of
\* the current attempt, never one of an attempt that a configuration change
\* has torn down.
C13_ExpiryAnswersCurrentAttempt ==
    [][(TimerExpiry /\ mounted) => CurrentAttemptFailed]_vars

\* C14: every attempt has issued the signaling request exactly once from the
\* moment it reaches the fetch (never before, never twice), and a request
\* that completes is followed by reading the answer or by the catch block,
\* never by another request.
C14_ExactlyOneFetch ==
    /\ [](\A p \in PcIds :
            /\ pcs[p].fetches <= 1
            /\ pcs[p].step \in {"none", "offer", "local"} => pcs[p].fetches = 0
            /\ pcs[p].step \in {"fetch", "text", "remote", "done"} => pcs[p].fetches = 1)
    /\ [][\A p \in PcIds :
            (pcs[p].step = "fetch" /\ pcs'[p] # pcs[p] /\ pcs'[p].state = pcs[p].state) =>
                (pcs'[p].step \in {"text", "failed"} /\ pcs'[p].fetches = 1)]_vars

\* An attempt whose request was answered with a status that is not ok has
\* been closed after one request, and the attempt that followed it has
\* connected after one request.
C14_Witness ==
    \E p, q \in PcIds :
        /\ pcs[p].state = "closed" /\ pcs[p].step = "failed" /\ pcs[p].fetches = 1
        /\ pcs[q].state = "open" /\ pcs[q].step = "done" /\ pcs[q].fetches = 1
        /\ error = NoError

\* This step is a state-change callback of pc p.
StateChange(p) ==
    /\ pcs[p].state = "open" /\ pcs'[p].state = "open"
    /\ pcs'[p].ice # pcs[p].ice \/ pcs'[p].conn # pcs[p].conn

TransportFailed(pc) == pc.ice = "failed" \/ pc.conn = "failed"

\* C15: a state-change callback belongs to the pc in pcRef and sets the
\* status to the raw labels; if the ICE or the connection state is "failed"
\* it calls triggerReconnect, which leaves the armed timer alone or arms the
\* 2 s timer and announces the retry; and a connected session whose transport
\* has failed is followed by a new connection attempt.
C15_StateChangeReported ==
    /\ [][\A p \in PcIds : StateChange(p) =>
            /\ p = pcRef
            /\ error' = error
            /\ status' = IF TransportFailed(pcs'[p]) /\ ~Armed
                         THEN "Retrying in 2s..."
                         ELSE RawLabel(pcs'[p].ice, pcs'[p].conn)
            /\ IF TransportFailed(pcs'[p])
               THEN /\ Armed'
                    /\ PendingTimers' = {reconnectTimeoutRef'}
                    /\ IF Armed THEN timers' = timers
                       ELSE timers'[reconnectTimeoutRef'] = DELAY
               ELSE timers' = timers /\ reconnectTimeoutRef' = reconnectTimeoutRef]_vars
    /\ (mounted /\ ConfigComplete /\ pcRef # 0 /\ Live(pcRef) /\ TransportFailed(pcs[pcRef]))
            ~> (lastRun.started \/ ~mounted \/ ~ConfigComplete)

\* The ICE transport of the connected session has just failed: no error is
\* shown, the retry is announced and the 2 s timer is armed.
C15_Witness ==
    /\ pcRef # 0
    /\ Live(pcRef)
    /\ pcs[pcRef].ice = "failed"
    /\ pcs[pcRef].conn = "connected"
    /\ status = "Retrying in 2s..."
    /\ error = NoError
    /\ Armed
    /\ timers[reconnectTimeoutRef] = DELAY

\* C16 as stated: once an attempt has failed during negotiation its pc is
\* closed and pcRef does not hold it.
C16_FailedAttemptTornDown ==
    \A p \in PcIds : pcs[p].step = "failed" => (pcs[p].state = "closed" /\ pcRef # p)

\* C16 amended: the pc of a failed attempt stays open, in pcRef, only while a
\* reconnect timer is armed or the effect is about to run again, and it is
\* then closed and dropped from pcRef.
C16_FailedAttemptTornDownLater ==
    /\ [](\A p \in PcIds : (pcs[p].step = "failed" /\ pcs[p].state = "open") =>
            (p = pcRef /\ mounted /\ (Armed \/ EffectPending)))
    /\ \A p \in PcIds :
            (pcs[p].step = "failed" /\ pcs[p].state = "open")
                ~> (pcs[p].state = "closed" /\ pcs[p].closes = 1 /\ pcRef # p)

\* One second after the signaling request of the current attempt failed, its
\* pc is still open and in pcRef, and the timer has one second left.
C16_Witness ==
    /\ pcRef # 0
    /\ pcs[pcRef].step = "failed"
    /\ pcs[pcRef].state = "open"
    /\ pcs[pcRef].fetches = 1
    /\ Armed
    /\ firstFailAge = 1
    /\ timers[reconnectTimeoutRef] = DELAY - 1

\* This step is a run of the interval callback of the monitor.
SampleStep == lastSample' # "none"

\* The end of the last buffered range and the drift the callback computes.
BufferedEnd == video.buffered[Len(video.buffered)]
Drift == BufferedEnd - video.currentTime

\* C17 as stated: the callback does nothing while the video is paused or its
\* readyState is below HAVE_ENOUGH_DATA (4), the "enough data to play
\* through" level.
C17_SkipBelowEnoughData ==
    [][(SampleStep /\ (video.paused \/ video.readyState < 4)) =>
            (latency' = latency /\ video' = video)]_vars

\* C17 amended: the callback does nothing while the video is paused or its
\* readyState is below HAVE_FUTURE_DATA (3); otherwise, at readyState 3 or 4,
\* it publishes the drift if anything is buffered.
C17_SkipBelowFutureData ==
    [][SampleStep =>
        IF video.paused \/ video.readyState < HAVE_FUTURE_DATA
        THEN latency' = latency /\ video' = video /\ lastSample' = "skipped"
        ELSE IF Len(video.buffered) > 0
        THEN latency' = Drift /\ lastSample' \in {"sampled", "corrected"}
        ELSE latency' = latency /\ video' = video /\ lastSample' = "empty"]_vars

\* A sample has been taken, and the position corrected, at readyState
\* HAVE_FUTURE_DATA.
C17_Witness ==
    /\ lastSample = "corrected"
    /\ video.readyState = HAVE_FUTURE_DATA
    /\ ~video.paused
    /\ latency > THRESHOLD

\* C18: on a sample that is taken the drift is published and the position is
\* moved to the end of the buffer if and only if the drift exceeds 0.5 s,
\* after which the drift is 0; no run of the callback moves the position
\* backward, pauses or resumes playback, or changes what is buffered.
C18_ForwardOnlyCorrection ==
    /\ [][lastSample' \in {"sampled", "corrected"} =>
            /\ latency' = Drift
            /\ IF Drift > THRESHOLD
               THEN /\ video'.currentTime = BufferedEnd
                    /\ video'.currentTime > video.currentTime
                    /\ video'.buffered[Len(video'.buffered)] - video'.currentTime = 0
                    /\ lastSample' = "corrected"
               ELSE /\ video'.currentTime = video.currentTime
                    /\ lastSample' = "sampled"]_vars
    /\ [][SampleStep =>
            /\ video'.currentTime >= video.currentTime
            /\ video'.paused = video.paused
            /\ video'.readyState = video.readyState
            /\ video'.buffered = video.buffered]_vars

\* A drift of exactly 0.5 s has been published and the position left where
\* it was.
C18_Witness ==
    /\ lastSample = "sampled"
    /\ latency = THRESHOLD
    /\ Len(video.buffered) > 0
    /\ Drift = THRESHOLD

\* C19: at most one pc is not closed, it is the one in pcRef, pcRef never
\* holds a closed pc, and after unmount no pc is open.
C19_OnlyReferencedPcOpen ==
    /\ Cardinality(OpenPcs) <= 1
    /\ \A p \in PcIds : pcs[p].state = "open" => p = pcRef
    /\ pcRef # 0 => pcs[pcRef].state = "open"
    /\ ~mounted => (OpenPcs = {} /\ pcRef = 0)

\* The signaling request of an earlier attempt is still in flight on its
\* closed pc while the attempt that replaced it holds the only open pc.
C19_Witness ==
    /\ pcRef # 0
    /\ OpenPcs = {pcRef}
    /\ pcs[pcRef].step \in {"fetch", "text"}
    /\ \E p \in PcIds : pcs[p].state = "closed" /\ pcs[p].step \in {"fetch", "text"}

\* C20: while the status is "Connected" no error message is shown and no
\* reconnect timer is armed.
C20_ConnectedMeansHealthy ==
    status = "Connected" => (error = NoError /\ ~Armed)
====
